---- MODULE Spec2Model ----
(***************************************************************************)
(* Metrum time (src/src/time.rs): the decimal date/time values, their      *)
(* validating constructors, the conversion from a UTC civil date-time and  *)
(* the conversion to and from the linear tick timestamp.                   *)
(*                                                                         *)
(* The Rust code computes in u8/u16/u32/i32 and in the 64-bit types i64    *)
(* and u64.  TLC's integers are 32 bits wide, so every 64-bit quantity of  *)
(* the code (the timestamp, the microsecond of the day) is held as a wide  *)
(* integer: a sequence of limbs in base LimbBase, least significant first, *)
(* every limb but the last in 0..LimbBase-1, the last limb carrying the    *)
(* sign.  The W* operators are exact integer arithmetic on that form.      *)
(***************************************************************************)
EXTENDS Integers, Sequences, FiniteSets, TLC

VARIABLES
    build,   \* "debug": overflow checks compiled in; "release": wrapping arithmetic
    pc,      \* the position of the caller
    arg,     \* the call and its arguments
    res,     \* what the constructor returned
    dt,      \* the MetrumDateTime under test (subtick set to 0)
    ts,      \* the i64 handed to from_timestamp or returned by timestamp
    yr,      \* from_timestamp's local `year`
    rem,     \* from_timestamp's local `timestamp_remaining`
    back,    \* what from_timestamp returned
    rebuilt  \* what MetrumDateTime::new returned for the fields read back

vars == <<build, pc, arg, res, dt, ts, yr, rem, back, rebuilt>>

-----------------------------------------------------------------------------
(* Wide integers *)

LimbBase == 10^3

RECURSIVE WCarry(_, _, _)
WCarry(w, i, c) ==
    IF i = Len(w)
    THEN <<w[i] + c>>
    ELSE <<(w[i] + c) % LimbBase>> \o WCarry(w, i + 1, (w[i] + c) \div LimbBase)

WNorm(w) == WCarry(w, 1, 0)

W(n) == WNorm(<<n, 0, 0, 0, 0>>)

WAdd(a, b) == WNorm([i \in 1..Len(a) |-> a[i] + b[i]])

WSub(a, b) == WNorm([i \in 1..Len(a) |-> a[i] - b[i]])

WNeg(a) == WNorm([i \in 1..Len(a) |-> 0 - a[i]])

WMul(a, k) == WNorm([i \in 1..Len(a) |-> a[i] * k])

WIsNeg(a) == a[Len(a)] < 0

WGe(a, b) == ~WIsNeg(WSub(a, b))

\* long division of a non-negative wide integer by 0 < d, from the top limb
\* down: <<quotient, remainder>>
RECURSIVE WDivLimbs(_, _, _, _)
WDivLimbs(a, d, i, r) ==
    IF i = 0
    THEN <<<< >>, r>>
    ELSE LET rest == WDivLimbs(a, d, i - 1, (r * LimbBase + a[i]) % d)
         IN  <<Append(rest[1], (r * LimbBase + a[i]) \div d), rest[2]>>

WDivMag(a, d) == WDivLimbs(a, d, Len(a), 0)

\* Rust's / and % on a 64-bit integer: the quotient truncates toward zero and
\* the remainder takes the sign of the dividend
WDivT(a, d) == IF WIsNeg(a) THEN WNeg(WDivMag(WNeg(a), d)[1]) ELSE WDivMag(a, d)[1]

WRemT(a, d) == IF WIsNeg(a) THEN 0 - WDivMag(WNeg(a), d)[2] ELSE WDivMag(a, d)[2]

\* the value of a wide integer that fits TLC's integers
RECURSIVE WHorner(_, _)
WHorner(a, i) == IF i = Len(a) THEN a[i] ELSE a[i] + LimbBase * WHorner(a, i + 1)

WToInt(a) == WHorner(a, 1)

-----------------------------------------------------------------------------
(* Rust integer semantics *)

\* a call either returns a value or panics (unwinds without a value)
Returns(v) == [tag |-> "returns", val |-> v]

Panics == [tag |-> "panics"]

\* Result<T, TimeError>
Ok(v) == [ok |-> TRUE, val |-> v]

Err(e) == [ok |-> FALSE, err |-> e]

\* the value x of an arithmetic operation on an unsigned type of m values: in
\* range it is the result; out of range the operation panics where overflow
\* checks are compiled in (the debug profile) and wraps where they are not
\* (the release profile)
Arith(b, x, m) ==
    IF 0 <= x /\ x < m THEN Returns(x)
    ELSE IF b = "debug" THEN Panics
    ELSE Returns(x % m)

\* `as u8`, `as u16` of a value TLC can hold
AsU8(x) == x % 2^8

AsU16(x) == x % 2^16

\* `as u32` of a value in 0..2^31-1 (TLC holds no integer beyond that, and no
\* cast of the code is applied to a negative value)
AsU32(x) == CASE 0 <= x -> x

\* `as u16` of an i64
WAsU16(a) == (WRemT(a, 2^16) + 2^16) % 2^16

\* Rust's % on i32: the remainder takes the sign of the dividend
RemT(a, d) == IF a >= 0 THEN a % d ELSE 0 - ((0 - a) % d)

\* i64::MIN = -2^63
I64_MIN == WNeg(WMul(WMul(W(2^21), 2^21), 2^21))

\* i64::abs: the absolute value of i64::MIN is not an i64
I64Abs(b, a) ==
    IF a = I64_MIN THEN (IF b = "debug" THEN Panics ELSE Returns(a))
    ELSE Returns(IF WIsNeg(a) THEN WNeg(a) ELSE a)

-----------------------------------------------------------------------------
(* time.rs *)

SUBTICKS_PER_TICK == 1000000
TICKS_PER_MINUTE == 100
MINUTES_PER_DAY == 1000
TICKS_PER_DAY == MINUTES_PER_DAY * TICKS_PER_MINUTE
DAYS_PER_COMMON_YEAR == 365
DAYS_PER_LEAP_YEAR == 366
MICROS_PER_TICK == 864000
YEAR_OFFSET == 2000

\* mutant of is_leap_year: the Julian rule, without the century exception
is_leap_year_julian(year) == RemT(year, 4) = 0

is_leap_year(year) ==
    IF RemT(year, 4) = 0
    THEN IF RemT(year, 100) = 0 THEN RemT(year, 400) = 0 ELSE TRUE
    ELSE FALSE

\* month is a chrono::Month, 1 (January) .. 12 (December)
days_in_month(month, year) ==
    CASE month \in {1, 3, 5, 7, 8, 10, 12} -> 31
      [] month \in {4, 6, 9, 11} -> 30
      [] month = 2 -> IF is_leap_year(year) THEN 29 ELSE 28

\* the loop of year_day from previous_month on; acc is the outcome so far
RECURSIVE year_day_loop(_, _, _, _, _)
year_day_loop(b, year, month, previous_month, acc) ==
    IF previous_month >= month \/ acc.tag = "panics" THEN acc
    ELSE year_day_loop(b, year, month, previous_month + 1,
                       Arith(b, acc.val + days_in_month(previous_month, year), 2^16))

year_day(b, year, month, day) ==
    year_day_loop(b, year, month, 1, Arith(b, day - 1, 2^16))

MetrumDate(year, day) == [year |-> year, day |-> day]

\* line 38: the days of the year
year_days(year) ==
    IF is_leap_year(year) THEN DAYS_PER_LEAP_YEAR ELSE DAYS_PER_COMMON_YEAR

\* mutant of MetrumDate_new: every year taken for a common year
MetrumDate_new_common(year, day) ==
    IF day >= DAYS_PER_COMMON_YEAR THEN Err("InvalidDay")
    ELSE Ok(MetrumDate(year, day))

MetrumDate_new(year, day) ==
    IF day >= year_days(year) THEN Err("InvalidDay")
    ELSE Ok(MetrumDate(year, day))

MetrumDate_from_utc(b, year, month, day) ==
    IF month = 0 \/ month > 12 THEN Returns(Err("InvalidUtcMonth"))
    ELSE IF day > days_in_month(month, year) THEN Returns(Err("InvalidUtcDay"))
    ELSE LET yd == year_day(b, year, month, day)
         IN  IF yd.tag = "panics" THEN Panics
             ELSE Returns(Ok(MetrumDate(year, yd.val)))

MetrumTime(minute, tick, subtick) ==
    [minute |-> minute, tick |-> tick, subtick |-> subtick]

MetrumTime_new(minute, tick, subtick) ==
    IF minute > MINUTES_PER_DAY THEN Err("InvalidMinute")
    ELSE IF tick > TICKS_PER_MINUTE THEN Err("InvalidTick")
    ELSE IF subtick > SUBTICKS_PER_TICK THEN Err("InvalidSubtick")
    ELSE Ok(MetrumTime(minute, tick, subtick))

\* the u64 microsecond of the day
day_micros(hour, minute, second, nano) ==
    WAdd(WMul(W(hour * 3600 + minute * 60 + second), 1000000), W(nano \div 1000))

\* mutant of MetrumTime_from_utc: the microseconds divided by SUBTICKS_PER_TICK
\* in place of MICROS_PER_TICK
MetrumTime_from_utc_subticks(hour, minute, second, nano) ==
    IF hour > 23 THEN Err("InvalidUtcHour")
    ELSE IF minute > 59 THEN Err("InvalidUtcMinute")
    ELSE IF second > 59 THEN Err("InvalidUtcSecond")
    ELSE IF nano > 999999999 THEN Err("InvalidUtcNano")
    ELSE LET qr == WDivMag(day_micros(hour, minute, second, nano), SUBTICKS_PER_TICK)
             day_ticks == AsU32(WToInt(qr[1]))
             subtick == AsU32(qr[2])
         IN  Ok(MetrumTime(AsU16(day_ticks \div TICKS_PER_MINUTE),
                           AsU8(day_ticks % TICKS_PER_MINUTE),
                           subtick))

MetrumTime_from_utc(hour, minute, second, nano) ==
    IF hour > 23 THEN Err("InvalidUtcHour")
    ELSE IF minute > 59 THEN Err("InvalidUtcMinute")
    ELSE IF second > 59 THEN Err("InvalidUtcSecond")
    ELSE IF nano > 999999999 THEN Err("InvalidUtcNano")
    ELSE LET qr == WDivMag(day_micros(hour, minute, second, nano), MICROS_PER_TICK)
             day_ticks == AsU32(WToInt(qr[1]))
             subtick == AsU32(qr[2])
         IN  Ok(MetrumTime(AsU16(day_ticks \div TICKS_PER_MINUTE),
                           AsU8(day_ticks % TICKS_PER_MINUTE),
                           subtick))

MetrumDateTime(date, time) == [date |-> date, time |-> time]

MetrumDateTime_new(year, day, minute, tick, subtick) ==
    LET date == MetrumDate_new(year, day)
        time == MetrumTime_new(minute, tick, subtick)
    IN  IF ~date.ok THEN date
        ELSE IF ~time.ok THEN time
        ELSE Ok(MetrumDateTime(date.val, time.val))

MetrumDateTime_from_utc(b, year, month, day, hour, minute, second, nano) ==
    LET date == MetrumDate_from_utc(b, year, month, day)
        time == MetrumTime_from_utc(hour, minute, second, nano)
    IN  IF date.tag = "panics" THEN Panics
        ELSE IF ~date.val.ok THEN date
        ELSE IF ~time.ok THEN Returns(time)
        ELSE Returns(Ok(MetrumDateTime(date.val.val, time.val)))

set_subtick(x, subtick) ==
    MetrumDateTime(x.date, MetrumTime(x.time.minute, x.time.tick, subtick))

\* mutant of next_year_ticks: the leap year test on `year` whatever the sign
\* of the remaining ticks
next_year_ticks_same_year(year, timestamp_remaining) ==
    IF is_leap_year(year) THEN 366 * TICKS_PER_DAY ELSE 365 * TICKS_PER_DAY

\* the ticks of the year the remaining ticks lie in: the year itself for a
\* non-negative remainder, the year before it for a negative one
next_year_ticks(year, timestamp_remaining) ==
    IF is_leap_year(year + (IF WIsNeg(timestamp_remaining) THEN -1 ELSE 0))
    THEN 366 * TICKS_PER_DAY
    ELSE 365 * TICKS_PER_DAY

\* mutant of from_timestamp_tail: a negative remainder never decrements the
\* day (the `day -= 1` of line 170 left out)
from_timestamp_tail_no_decrement(b, year, timestamp_remaining) ==
    IF ~WIsNeg(timestamp_remaining)
    THEN LET day == WAsU16(WDivT(timestamp_remaining, TICKS_PER_DAY))
             day_ticks == AsU32(WRemT(timestamp_remaining, TICKS_PER_DAY))
         IN  Returns(MetrumDateTime(
                 MetrumDate(year, day),
                 MetrumTime(AsU16(day_ticks \div TICKS_PER_MINUTE),
                            AsU8(day_ticks % TICKS_PER_MINUTE), 0)))
    ELSE LET year1 == year - 1
             day_count == IF is_leap_year(year1) THEN 366 ELSE 365
             day == WAsU16(WAdd(WDivT(timestamp_remaining, TICKS_PER_DAY), W(day_count)))
             day_ticks0 == AsU32(WRemT(timestamp_remaining, TICKS_PER_DAY) + TICKS_PER_DAY)
             day_ticks == IF day_ticks0 # TICKS_PER_DAY THEN day_ticks0 ELSE 0
         IN  Returns(MetrumDateTime(
                 MetrumDate(year1, day),
                 MetrumTime(AsU16(day_ticks \div TICKS_PER_MINUTE),
                            AsU8(day_ticks % TICKS_PER_MINUTE), 0)))

\* the value from_timestamp builds once its loop has ended
from_timestamp_tail(b, year, timestamp_remaining) ==
    IF ~WIsNeg(timestamp_remaining)
    THEN LET day == WAsU16(WDivT(timestamp_remaining, TICKS_PER_DAY))
             day_ticks == AsU32(WRemT(timestamp_remaining, TICKS_PER_DAY))
         IN  Returns(MetrumDateTime(
                 MetrumDate(year, day),
                 MetrumTime(AsU16(day_ticks \div TICKS_PER_MINUTE),
                            AsU8(day_ticks % TICKS_PER_MINUTE), 0)))
    ELSE LET year1 == year - 1
             day_count == IF is_leap_year(year1) THEN 366 ELSE 365
             day0 == WAsU16(WAdd(WDivT(timestamp_remaining, TICKS_PER_DAY), W(day_count)))
             day_ticks0 == AsU32(WRemT(timestamp_remaining, TICKS_PER_DAY) + TICKS_PER_DAY)
             day == IF day_ticks0 # TICKS_PER_DAY THEN Arith(b, day0 - 1, 2^16)
                    ELSE Returns(day0)
             day_ticks == IF day_ticks0 # TICKS_PER_DAY THEN day_ticks0 ELSE 0
         IN  IF day.tag = "panics" THEN Panics
             ELSE Returns(MetrumDateTime(
                      MetrumDate(year1, day.val),
                      MetrumTime(AsU16(day_ticks \div TICKS_PER_MINUTE),
                                 AsU8(day_ticks % TICKS_PER_MINUTE), 0)))

\* the condition of the while loop of from_timestamp:
\* timestamp_remaining.abs() >= next_year_ticks, or the panic of abs
loop_condition(b, year, timestamp_remaining) ==
    LET abs == I64Abs(b, timestamp_remaining)
    IN  IF abs.tag = "panics" THEN Panics
        ELSE Returns(WGe(abs.val, W(next_year_ticks(year, timestamp_remaining))))

\* the body of the while loop: the year and the remaining ticks after it
\* (the i32 `year` moves one step per 365 days of ticks and stays far from the
\* ends of i32 for the timestamps of the model)
loop_body(year, timestamp_remaining) ==
    LET ticks == W(next_year_ticks(year, timestamp_remaining))
    IN  IF WIsNeg(timestamp_remaining)
        THEN <<year - 1, WAdd(timestamp_remaining, ticks)>>
        ELSE <<year + 1, WSub(timestamp_remaining, ticks)>>

\* mutant of year_ticks: 365 days for every year
year_ticks_common(lo, hi) ==
    IF lo >= hi THEN W(0) ELSE WMul(W((hi - lo) * 365), 100000)

\* the for loops of timestamp: the sum of days_in_year * 100_000 over
\* current_year in lo..hi-1 (the sum is split in halves to keep the
\* evaluation shallow)
RECURSIVE year_ticks(_, _)
year_ticks(lo, hi) ==
    IF lo >= hi THEN W(0)
    ELSE IF hi = lo + 1
    THEN W((IF is_leap_year(lo + YEAR_OFFSET) THEN 366 ELSE 365) * 100000)
    ELSE WAdd(year_ticks(lo, (lo + hi) \div 2), year_ticks((lo + hi) \div 2, hi))

timestamp(x) ==
    LET offset_year == x.date.year - YEAR_OFFSET
        years == IF offset_year >= 0
                 THEN WAdd(W(0), year_ticks(0, offset_year))
                 ELSE WSub(W(0), year_ticks(offset_year, 0))
    IN  WAdd(years, WAdd(WMul(W(x.date.day), 100000),
                         W(x.time.minute * 100 + x.time.tick)))

-----------------------------------------------------------------------------
(* The callers: the tests of time.rs (constructors, timestamps) generalised *)
(* from their two fixed dates to sets of arguments                          *)

None == [tag |-> "none"]

\* the years of the model: YearSpan years on either side of the epoch year
YearSpan == 101

Years == (YEAR_OFFSET - YearSpan)..(YEAR_OFFSET + YearSpan)

\* the years of the leap-year oracle also run through the negative years
\* -OracleSpan..OracleSpan
OracleSpan == 401

OracleYears == Years \cup ((0 - OracleSpan)..OracleSpan)

InitWith(args) ==
    /\ build \in {"debug", "release"}
    /\ pc = "start"
    /\ arg \in args
    /\ res = None
    /\ dt = None
    /\ ts = None
    /\ yr = None
    /\ rem = None
    /\ back = None
    /\ rebuilt = None

\* MetrumDate::new(year, day)
CallDateNew ==
    /\ pc = "start"
    /\ arg.fn = "MetrumDate::new"
    /\ res' = Returns(MetrumDate_new(arg.year, arg.day))
    /\ pc' = "built"
    /\ UNCHANGED <<build, arg, dt, ts, yr, rem, back, rebuilt>>

\* MetrumDate::from_utc(year, month, day)
CallDateFromUtc ==
    /\ pc = "start"
    /\ arg.fn = "MetrumDate::from_utc"
    /\ res' = MetrumDate_from_utc(build, arg.year, arg.month, arg.day)
    /\ pc' = "built"
    /\ UNCHANGED <<build, arg, dt, ts, yr, rem, back, rebuilt>>

\* MetrumTime::from_utc(hour, minute, second, nano)
CallTimeFromUtc ==
    /\ pc = "start"
    /\ arg.fn = "MetrumTime::from_utc"
    /\ res' = Returns(MetrumTime_from_utc(arg.hour, arg.minute, arg.second, arg.nano))
    /\ pc' = "built"
    /\ UNCHANGED <<build, arg, dt, ts, yr, rem, back, rebuilt>>

\* MetrumDateTime::from_utc(year, month, day, hour, minute, second, nano)
CallFromUtc ==
    /\ pc = "start"
    /\ arg.fn = "MetrumDateTime::from_utc"
    /\ res' = MetrumDateTime_from_utc(build, arg.year, arg.month, arg.day,
                                      arg.hour, arg.minute, arg.second, arg.nano)
    /\ pc' = "built"
    /\ UNCHANGED <<build, arg, dt, ts, yr, rem, back, rebuilt>>

\* MetrumDateTime::new(year, day, minute, tick, subtick)
CallNew ==
    /\ pc = "start"
    /\ arg.fn = "MetrumDateTime::new"
    /\ res' = Returns(MetrumDateTime_new(arg.year, arg.day, arg.minute,
                                         arg.tick, arg.subtick))
    /\ pc' = "built"
    /\ UNCHANGED <<build, arg, dt, ts, yr, rem, back, rebuilt>>

\* MetrumDateTime::new(r.year(), r.day(), r.minute(), r.tick(), r.subtick())
\* for the value r that from_utc returned (the test `constructors`)
Reconstruct ==
    /\ pc = "built"
    /\ arg.fn = "MetrumDateTime::from_utc"
    /\ res.tag = "returns"
    /\ res.val.ok
    /\ rebuilt' = MetrumDateTime_new(res.val.val.date.year, res.val.val.date.day,
                                     res.val.val.time.minute, res.val.val.time.tick,
                                     res.val.val.time.subtick)
    /\ pc' = "rebuilt"
    /\ UNCHANGED <<build, arg, res, dt, ts, yr, rem, back>>

\* let mut x = ....unwrap(); x.set_subtick(0);
SetSubtick ==
    /\ pc = "built"
    /\ res.tag = "returns"
    /\ res.val.ok
    /\ dt' = set_subtick(res.val.val, 0)
    /\ pc' = "value"
    /\ UNCHANGED <<build, arg, res, ts, yr, rem, back, rebuilt>>

\* x.timestamp()
CallTimestamp ==
    /\ pc = "value"
    /\ ts' = timestamp(dt)
    /\ pc' = "stamped"
    /\ UNCHANGED <<build, arg, res, dt, yr, rem, back, rebuilt>>

\* MetrumDateTime::from_timestamp(x.timestamp()): entry, lines 138-139
BeginFromTimestamp ==
    /\ pc = "stamped"
    /\ yr' = 2000
    /\ rem' = ts
    /\ pc' = "loop"
    /\ UNCHANGED <<build, arg, res, dt, ts, back, rebuilt>>

\* MetrumDateTime::from_timestamp(timestamp) for a given i64: entry
CallFromTimestamp ==
    /\ pc = "start"
    /\ arg.fn = "MetrumDateTime::from_timestamp"
    /\ yr' = 2000
    /\ rem' = arg.timestamp
    /\ pc' = "loop"
    /\ UNCHANGED <<build, arg, res, dt, ts, back, rebuilt>>

\* one iteration of the while loop, lines 143-152
LoopIter ==
    /\ pc = "loop"
    /\ loop_condition(build, yr, rem) = Returns(TRUE)
    /\ yr' = loop_body(yr, rem)[1]
    /\ rem' = loop_body(yr, rem)[2]
    /\ UNCHANGED <<build, pc, arg, res, dt, ts, back, rebuilt>>

\* the loop ends (or abs panics) and from_timestamp returns, lines 153-181
LoopExit ==
    /\ pc = "loop"
    /\ loop_condition(build, yr, rem) # Returns(TRUE)
    /\ back' = IF loop_condition(build, yr, rem) = Panics THEN Panics
               ELSE from_timestamp_tail(build, yr, rem)
    /\ pc' = "restored"
    /\ UNCHANGED <<build, arg, res, dt, ts, yr, rem, rebuilt>>

\* MetrumDateTime::from_timestamp(t).timestamp()
CallTimestampBack ==
    /\ pc = "restored"
    /\ arg.fn = "MetrumDateTime::from_timestamp"
    /\ back.tag = "returns"
    /\ ts' = timestamp(back.val)
    /\ pc' = "stamped back"
    /\ UNCHANGED <<build, arg, res, dt, yr, rem, back, rebuilt>>

-----------------------------------------------------------------------------
(* Specifications: one per group of calls, each over its set of arguments *)

\* MetrumDate::new and MetrumDate::from_utc, month and day over the u8 values
\* around every boundary of the code and the largest one
DateArgs ==
    [fn : {"MetrumDate::new"}, year : OracleYears, day : {0, 1, 364, 365, 366, 2^16 - 1}]
    \cup
    [fn : {"MetrumDate::from_utc"}, year : OracleYears,
     month : {0, 1, 2, 3, 4, 11, 12, 13, 2^8 - 1},
     day : {0, 1, 28, 29, 30, 31, 32, 2^8 - 1}]

InitDate == InitWith(DateArgs)

NextDate == CallDateNew \/ CallDateFromUtc

SpecDate == InitDate /\ [][NextDate]_vars

\* MetrumTime::from_utc over every second of the day, and one value past the
\* range of each field
TimeArgs ==
    [fn : {"MetrumTime::from_utc"}, hour : 0..24, minute : 0..60, second : 0..60,
     nano : {0, 999, 1000, 999999999, 1000000000}]

InitTime == InitWith(TimeArgs)

NextTime == CallTimeFromUtc

SpecTime == InitTime /\ [][NextTime]_vars

\* the test `constructors`: MetrumDateTime::from_utc, then MetrumDateTime::new
\* on the fields read back; and MetrumDateTime::new on its own
CtorArgs ==
    [fn : {"MetrumDateTime::from_utc"},
     year : {YEAR_OFFSET - YearSpan, 1900, 1970, 2000, 2004, YEAR_OFFSET + YearSpan},
     month : {0, 1, 2, 12, 13}, day : {0, 1, 28, 29, 30, 31, 32},
     hour : {0, 12, 23, 24}, minute : {0, 15, 59, 60}, second : {0, 17, 59, 60},
     nano : {0, 999999999, 1000000000}]
    \cup
    [fn : {"MetrumDateTime::new"}, year : {1900, 2000, 2001},
     day : {0, 364, 365, 366}, minute : {0, 999, 1000, 1001},
     tick : {0, 99, 100, 101}, subtick : {0, 999999, 1000000, 1000001}]

InitCtor == InitWith(CtorArgs)

NextCtor == CallFromUtc \/ CallNew \/ Reconstruct

SpecCtor == InitCtor /\ [][NextCtor]_vars

\* MetrumDateTime::new, then timestamp, over every year of the model
StampArgs ==
    [fn : {"MetrumDateTime::new"}, year : Years, day : {0, 1, 58, 59, 364, 365},
     minute : {0, 999}, tick : {0, 99}, subtick : {0}]

InitStamp == InitWith(StampArgs)

NextStamp == CallNew \/ SetSubtick \/ CallTimestamp

SpecStamp == InitStamp /\ [][NextStamp]_vars

\* the test `timestamps`: a value from from_utc or from new, its subtick set
\* to 0, through timestamp and from_timestamp
RoundTripArgs ==
    {[fn |-> "MetrumDateTime::from_utc", year |-> y, month |-> d[1], day |-> d[2],
      hour |-> t[1], minute |-> t[2], second |-> t[3], nano |-> t[4]] :
        y \in Years,
        d \in {<<1, 1>>, <<2, 28>>, <<2, 29>>, <<12, 31>>},
        t \in {<<0, 0, 0, 0>>, <<23, 59, 59, 999999999>>}}
    \cup
    [fn : {"MetrumDateTime::new"},
     year : {YEAR_OFFSET - YearSpan, YEAR_OFFSET - 1, YEAR_OFFSET, YEAR_OFFSET + 1,
             YEAR_OFFSET + YearSpan},
     day : {0, 364}, minute : {0, 999, 1000}, tick : {0, 99, 100}, subtick : {0}]

InitRoundTrip == InitWith(RoundTripArgs)

NextRoundTrip ==
    \/ CallFromUtc
    \/ CallNew
    \/ SetSubtick
    \/ CallTimestamp
    \/ BeginFromTimestamp
    \/ LoopIter
    \/ LoopExit

SpecRoundTrip == InitRoundTrip /\ [][NextRoundTrip]_vars

\* the days from 1 January 2000 to 1 January of year y (y > 0), by the
\* Gregorian count of leap years: where the year boundaries lie on the tick axis
LeapYearsThrough(n) == (n \div 4) - (n \div 100) + (n \div 400)

DaysToYear(y) == 365 * (y - 2000) + LeapYearsThrough(y - 1) - LeapYearsThrough(1999)

\* from_timestamp, then timestamp: the ticks on, beside and one day from every
\* year boundary of the model, and the least i64
TimestampArgs ==
    {[fn |-> "MetrumDateTime::from_timestamp",
      timestamp |-> WAdd(WMul(W(DaysToYear(y)), TICKS_PER_DAY), W(o))] :
        y \in Years \cup {YEAR_OFFSET + YearSpan + 1},
        o \in {0 - TICKS_PER_DAY - 1, 0 - TICKS_PER_DAY, 0 - TICKS_PER_DAY + 1,
               -1, 0, 1, TICKS_PER_DAY - 1, TICKS_PER_DAY, TICKS_PER_DAY + 1}}
    \cup
    {[fn |-> "MetrumDateTime::from_timestamp", timestamp |-> I64_MIN]}

InitTimestamp == InitWith(TimestampArgs)

NextTimestamp == CallFromTimestamp \/ LoopIter \/ LoopExit \/ CallTimestampBack

SpecTimestamp == InitTimestamp /\ [][NextTimestamp]_vars

-----------------------------------------------------------------------------
(* Claims *)

TimeError ==
    {"InvalidDay", "InvalidMinute", "InvalidTick", "InvalidSubtick",
     "InvalidUtcMonth", "InvalidUtcDay", "InvalidUtcHour", "InvalidUtcMinute",
     "InvalidUtcSecond", "InvalidUtcNano"}

\* a valid UTC date-time: month 1..12, day 1..days_in_month, hour 0..23,
\* minute 0..59, second 0..59, nanosecond 0..999_999_999
ValidUtcDate(a) ==
    /\ a.month \in 1..12
    /\ 1 <= a.day
    /\ a.day <= days_in_month(a.month, a.year)

ValidUtcTime(a) ==
    /\ a.hour \in 0..23
    /\ a.minute \in 0..59
    /\ a.second \in 0..59
    /\ 0 <= a.nano
    /\ a.nano <= 999999999

\* C1: for every value x that MetrumDateTime::new accepts and whose subtick is
\* 0, from_timestamp(x.timestamp()) == x.
C1_LeftInverseOfNew ==
    (pc = "restored" /\ arg.fn = "MetrumDateTime::new") => back = Returns(dt)

\* C2: for every valid UTC date-time, x = from_utc(...) with its subtick set to
\* 0 satisfies from_timestamp(x.timestamp()) == x.
C2_LeftInverseOfUtc ==
    (arg.fn = "MetrumDateTime::from_utc" /\ ValidUtcDate(arg) /\ ValidUtcTime(arg)) =>
        /\ pc # "start" => res.tag = "returns" /\ res.val.ok
        /\ pc = "restored" => back = Returns(dt)

C2_Witness ==
    /\ pc = "restored"
    /\ arg.fn = "MetrumDateTime::from_utc"
    /\ arg.year = 1900 /\ arg.month = 12 /\ arg.day = 31 /\ arg.hour = 23
    /\ dt = MetrumDateTime(MetrumDate(1900, 364), MetrumTime(999, 99, 0))
    /\ back = Returns(dt)

\* C3: MetrumDate::new and MetrumDate::from_utc either return an error of the
\* TimeError enumeration or a date whose day is below the days of its year;
\* no input leads to any other outcome.
C3_DateInvariant ==
    (pc = "built" /\ arg.fn \in {"MetrumDate::new", "MetrumDate::from_utc"}) =>
        /\ res.tag = "returns"
        /\ IF res.val.ok
           THEN res.val.val.year = arg.year /\ res.val.val.day < year_days(arg.year)
           ELSE res.val.err \in TimeError

\* C4: for every valid UTC date-time r = MetrumDateTime::from_utc(...) succeeds,
\* and MetrumDateTime::new on the fields read back from r succeeds and equals r.
C4_UtcThenNew ==
    (arg.fn = "MetrumDateTime::from_utc" /\ ValidUtcDate(arg) /\ ValidUtcTime(arg)) =>
        /\ pc # "start" => res.tag = "returns" /\ res.val.ok
        /\ pc = "rebuilt" => rebuilt = Ok(res.val.val)

C4_Witness ==
    /\ pc = "rebuilt"
    /\ arg.fn = "MetrumDateTime::from_utc"
    /\ arg.year = 1970 /\ arg.month = 12 /\ arg.day = 28
    /\ arg.hour = 12 /\ arg.minute = 15 /\ arg.second = 17
    /\ res.val.val.time.subtick > 0
    /\ rebuilt = Ok(res.val.val)

\* the DateTime one tick after x: tick 99 rolls into tick 0 of the next minute,
\* minute 999 into minute 0 of the next day, the last day of a year into day 0
\* of the next year
Successor(v) ==
    IF v.time.tick < 99
    THEN MetrumDateTime(v.date, MetrumTime(v.time.minute, v.time.tick + 1, 0))
    ELSE IF v.time.minute < 999
    THEN MetrumDateTime(v.date, MetrumTime(v.time.minute + 1, 0, 0))
    ELSE IF v.date.day + 1 < year_days(v.date.year)
    THEN MetrumDateTime(MetrumDate(v.date.year, v.date.day + 1), MetrumTime(0, 0, 0))
    ELSE MetrumDateTime(MetrumDate(v.date.year + 1, 0), MetrumTime(0, 0, 0))

\* C5: the timestamp of (2000, day 0, minute 0, tick 0) is 0, and the DateTime
\* one tick after x (minute < 1000, tick < 100) has timestamp x.timestamp() + 1.
C5_TickCount ==
    (pc = "stamped" /\ dt.time.minute < 1000 /\ dt.time.tick < 100) =>
        /\ dt = MetrumDateTime(MetrumDate(2000, 0), MetrumTime(0, 0, 0)) => ts = W(0)
        /\ timestamp(Successor(dt)) = WAdd(ts, W(1))

C5_Witness ==
    /\ pc = "stamped"
    /\ dt = MetrumDateTime(MetrumDate(1903, 364), MetrumTime(999, 99, 0))
    /\ Successor(dt) = MetrumDateTime(MetrumDate(1904, 0), MetrumTime(0, 0, 0))
    /\ timestamp(Successor(dt)) = WAdd(ts, W(1))

\* the error kind of the first invalid field, "none" when every field is in
\* range (the ranges of the data model: minute <= 1000, tick <= 100,
\* subtick <= 1_000_000)
FirstInvalidUtc(a) ==
    IF a.month \notin 1..12 THEN "InvalidUtcMonth"
    ELSE IF ~ValidUtcDate(a) THEN "InvalidUtcDay"
    ELSE IF a.hour \notin 0..23 THEN "InvalidUtcHour"
    ELSE IF a.minute \notin 0..59 THEN "InvalidUtcMinute"
    ELSE IF a.second \notin 0..59 THEN "InvalidUtcSecond"
    ELSE IF ~ValidUtcTime(a) THEN "InvalidUtcNano"
    ELSE "none"

FirstInvalidNew(a) ==
    IF ~(a.day < year_days(a.year)) THEN "InvalidDay"
    ELSE IF ~(a.minute <= 1000) THEN "InvalidMinute"
    ELSE IF ~(a.tick <= 100) THEN "InvalidTick"
    ELSE IF ~(a.subtick <= 1000000) THEN "InvalidSubtick"
    ELSE "none"

\* C6: MetrumDateTime::from_utc returns Ok exactly when every field is in
\* range and otherwise the error kind of the first invalid field, in the order
\* month, day, hour, minute, second, nanosecond; MetrumDateTime::new likewise
\* in the order day, minute, tick, subtick.
C6_FailFast ==
    (pc = "built") =>
        LET e == IF arg.fn = "MetrumDateTime::from_utc" THEN FirstInvalidUtc(arg)
                 ELSE FirstInvalidNew(arg)
        IN  IF e = "none" THEN res.tag = "returns" /\ res.val.ok
            ELSE res = Returns(Err(e))

\* k divides y
Divides(k, y) == (y \div k) * k = y

Gregorian(y) == Divides(4, y) /\ (~Divides(100, y) \/ Divides(400, y))

\* C7: is_leap_year(y) is true exactly when y is divisible by 4 and (not by 100
\* or by 400), negative years included; February has 29 days exactly in those
\* years, and MetrumDate::from_utc(y, 2, 29) succeeds exactly for them.
C7_LeapYearOracle ==
    (pc = "built") =>
        /\ is_leap_year(arg.year) = Gregorian(arg.year)
        /\ days_in_month(2, arg.year) = (IF Gregorian(arg.year) THEN 29 ELSE 28)
        /\ (arg.fn = "MetrumDate::from_utc" /\ arg.month = 2 /\ arg.day = 29) =>
               /\ res.tag = "returns"
               /\ res.val.ok = Gregorian(arg.year)

C7_Witness ==
    /\ pc = "built"
    /\ arg.fn = "MetrumDate::from_utc"
    /\ arg.year = -100 /\ arg.month = 2 /\ arg.day = 29
    /\ ~is_leap_year(arg.year)
    /\ res = Returns(Err("InvalidUtcDay"))

\* C8: for every valid hour, minute, second and nanosecond the result of
\* MetrumTime::from_utc satisfies (minute * 100 + tick) * 864_000 + subtick ==
\* (hour*3600 + minute_utc*60 + second) * 1_000_000 + nanosecond div 1000, with
\* minute in 0..999, tick in 0..99 and subtick in 0..863_999.
C8_MicrosecondRemap ==
    (pc = "built" /\ arg.fn = "MetrumTime::from_utc" /\ ValidUtcTime(arg)) =>
        /\ res.val.ok
        /\ res.val.val.minute \in 0..999
        /\ res.val.val.tick \in 0..99
        /\ res.val.val.subtick \in 0..863999
        /\ WAdd(WMul(W(res.val.val.minute * 100 + res.val.val.tick), 864000),
                W(res.val.val.subtick))
           = WAdd(WMul(W(arg.hour * 3600 + arg.minute * 60 + arg.second), 1000000),
                  W(arg.nano \div 1000))

C8_Witness ==
    /\ pc = "built"
    /\ arg.fn = "MetrumTime::from_utc"
    /\ arg.hour = 23 /\ arg.minute = 59 /\ arg.second = 59 /\ arg.nano = 999999999
    /\ res = Returns(Ok(MetrumTime(999, 99, 863999)))

\* C9: for every timestamp t, from_timestamp(t) has day < days_in_year(year),
\* minute < 1000, tick < 100 and subtick == 0.
C9_WellFormed ==
    (pc = "restored" /\ arg.fn = "MetrumDateTime::from_timestamp") =>
        /\ back.tag = "returns"
        /\ back.val.date.day < year_days(back.val.date.year)
        /\ back.val.time.minute < 1000
        /\ back.val.time.tick < 100
        /\ back.val.time.subtick = 0

\* the timestamps of the modelled range: those within YearSpan + 2 years of
\* 366 days of the epoch
InModelledRange(t) ==
    /\ WGe(t, WMul(W((0 - (YearSpan + 2)) * 366), TICKS_PER_DAY))
    /\ WGe(WMul(W((YearSpan + 2) * 366), TICKS_PER_DAY), t)

\* C10: for every timestamp t in the modelled range,
\* from_timestamp(t).timestamp() == t.
C10_RightInverse ==
    (arg.fn = "MetrumDateTime::from_timestamp" /\ InModelledRange(arg.timestamp)) =>
        /\ pc = "restored" => back.tag = "returns"
        /\ pc = "stamped back" => ts = arg.timestamp

C10_Witness ==
    /\ pc = "stamped back"
    /\ arg.fn = "MetrumDateTime::from_timestamp"
    /\ InModelledRange(arg.timestamp)
    /\ back.val = MetrumDateTime(MetrumDate(1899, 364), MetrumTime(0, 0, 0))
    /\ ts = arg.timestamp

====
